---- MODULE Spec2Model ----
(***************************************************************************)
(* A model of the backon retry engine: RetryConfig::decide                 *)
(* (backon/src/retry_core.rs), the execution driver that loops over        *)
(* attempts, and the context-threading closure that the #[backon]          *)
(* attribute generates (backon-macros/src/lib.rs).                         *)
(*                                                                         *)
(* Option<T> is modelled as a sequence of length at most one:              *)
(* None is << >> and Some(x) is << x >>.  ControlFlow<(), Duration> is     *)
(* modelled the same way: Break(()) is << >>, Continue(d) is << d >>.      *)
(* Hooks (FnMut) are modelled as functions of their arguments.             *)
(***************************************************************************)
EXTENDS Integers, Sequences, FiniteSets, TLC

\* ------------------------------------------------------------------ bounds

\* Longest delay sequence a backoff source yields before it is exhausted.
MaxDelays == 2

\* Cap on the number of invocations explored in one session (the driver
\* itself has no cap; sessions that would go on are cut here).
MaxAttempts == 4

\* ------------------------------------------------------------- value sets

Durations == {1, 2}
Errors == {"e1", "e2"}
Values == {"v1", "v2"}

None == << >>
Some(x) == << x >>
OptDur == {None} \cup {Some(d) : d \in Durations}

\* Result<T, E> of one attempt.
Ok(v) == [ok |-> TRUE, val |-> v]
Err(e) == [ok |-> FALSE, val |-> e]
Outcomes == {Ok(v) : v \in Values} \cup {Err(e) : e \in Errors}

\* All delay sequences a backoff source may hold.
RECURSIVE SeqsUpTo(_, _)
SeqsUpTo(S, n) ==
    IF n = 0 THEN {<< >>}
    ELSE LET shorter == SeqsUpTo(S, n - 1)
         IN shorter \cup {Append(s, x) : s \in {t \in shorter : Len(t) = n - 1}, x \in S}

BackoffSeqs == SeqsUpTo(Durations, MaxDelays)

\* -------------------------------------------------------------- the hooks

\* fn always_retry<E>(_: &E) -> bool { true }
always_retry == [e \in Errors |-> TRUE]

\* Caller-supplied `when` predicates: every predicate over the errors.
RetryFns == [Errors -> BOOLEAN]

\* An identity_adjust that drops the delay it is given.
identity_adjust_dropping == [e \in Errors, dur \in OptDur |-> None]

\* fn identity_adjust<E>(_: &E, dur: Option<Duration>) -> Option<Duration> { dur }
identity_adjust == [e \in Errors, dur \in OptDur |-> dur]

\* Caller-supplied `adjust` hooks: force a stop, override a supplied delay,
\* continue after exhaustion, follow a hint carried by one error, stop on
\* one error, and stop on one error while overriding for the other.
adjust_stop == [e \in Errors, dur \in OptDur |-> None]
adjust_override(d) == [e \in Errors, dur \in OptDur |-> IF dur = None THEN None ELSE Some(d)]
adjust_fallback(d) == [e \in Errors, dur \in OptDur |-> IF dur = None THEN Some(d) ELSE dur]
adjust_hint(d) == [e \in Errors, dur \in OptDur |-> IF e = "e1" THEN Some(d) ELSE dur]
adjust_fatal == [e \in Errors, dur \in OptDur |-> IF e = "e1" THEN None ELSE dur]
adjust_route(d) == [e \in Errors, dur \in OptDur |-> IF e = "e1" THEN None ELSE Some(d)]

AdjustFns ==
    {identity_adjust, adjust_stop, adjust_fatal}
        \cup {adjust_override(d) : d \in Durations}
        \cup {adjust_fallback(d) : d \in Durations}
        \cup {adjust_hint(d) : d \in Durations}
        \cup {adjust_route(d) : d \in Durations}

\* ----------------------------------------------------------------- events

\* One observable call, in the order the calls happen.
\*   ev   : which call
\*   s    : the error or the value it carries ("" when none)
\*   cand : the backoff candidate it carries
\*   dur  : the delay it carries
\*   ctx  : the context it carries
Ev(ev, s, cand, dur, ctx) == [ev |-> ev, s |-> s, cand |-> cand, dur |-> dur, ctx |-> ctx]

VARIABLES
    state,      \* Ready, Attempting, Sleeping, Succeeded, Failed
    config,     \* the session's RetryConfig: backoff, retryable, adjust
    backoff0,   \* the delays the backoff factory produced for this session
    withContext,\* whether the context-threaded calling convention is used
    driverCtx,  \* the context held by the driver (Option)
    opCtx,      \* the context held by the attempt in progress (Option)
    log,        \* every call made so far, in order
    result,     \* the session's result (Option of an outcome)
    bodyCtx     \* the arguments as the last run of the body left them (Option)

\* The state of one retry session.
session == <<state, config, backoff0, withContext, driverCtx, opCtx, log, result, bodyCtx>>

VARIABLES
    item,       \* the annotated function: async?, receiver, parameter patterns
    args,       \* the parsed #[backon(...)] arguments (BackonArgs)
    expansion   \* what expanding the attribute gave (Option)

\* The state of one expansion of the attribute.
macro == <<item, args, expansion>>

VARIABLES
    me,         \* which of two concurrent calls the session variables hold
    src,        \* the backoff source that call owns (0: no factory call yet)
    parked,     \* the other call's session, suspended
    heap        \* the backoff sources the factory has returned, by identity

\* Two calls of one wrapped operation running concurrently.
peers == <<me, src, parked, heap>>

VARIABLES
    tokens,     \* the arguments written in #[backon(...)], in order
    parsed      \* what parsing them gave (Option)

\* The state of one parse of the attribute's arguments.
parser == <<tokens, parsed>>

VARIABLES
    built,      \* a RetryConfig under construction: backoff and four hooks
    applied     \* the builder calls made on it so far, in order

\* The state of one construction of a RetryConfig.
builder == <<built, applied>>

\* What a step of a session leaves alone.
others == <<macro, peers, parser, builder>>

vars == <<session, others>>

\* ---------------------------------------------------------- backoff source

\* Backoff::next(): the next delay, or None for ever once exhausted.
BackoffNext(b) ==
    IF b = << >> THEN [item |-> None, rest |-> << >>]
    ELSE [item |-> Some(Head(b)), rest |-> Tail(b)]

\* ------------------------------------------------------ RetryConfig::decide

\* decide with the backoff pulled before the predicate is asked.
decide_pull_first(cfg, err) ==
    LET pulled == BackoffNext(cfg.backoff)
        candidate == pulled.item
    IN IF ~cfg.retryable[err]
       THEN [flow |-> None,
             backoff |-> pulled.rest,
             events |-> << Ev("pull", "", candidate, None, None),
                           Ev("reject", err, None, None, None) >>]
       ELSE LET adjusted == cfg.adjust[err, candidate]
                head == << Ev("pull", "", candidate, None, None),
                           Ev("accept", err, None, None, None),
                           Ev("adjust", err, candidate, adjusted, None) >>
            IN IF adjusted # None
               THEN [flow |-> adjusted,
                     backoff |-> pulled.rest,
                     events |-> Append(head, Ev("notify", err, None, adjusted, None))]
               ELSE [flow |-> None, backoff |-> pulled.rest, events |-> head]

\* decide with the predicate's answer inverted (the `!` dropped).
decide_inverted_predicate(cfg, err) ==
    IF cfg.retryable[err]
    THEN [flow |-> None,
          backoff |-> cfg.backoff,
          events |-> << Ev("accept", err, None, None, None) >>]
    ELSE LET pulled == BackoffNext(cfg.backoff)
             candidate == pulled.item
             adjusted == cfg.adjust[err, candidate]
             head == << Ev("reject", err, None, None, None),
                        Ev("pull", "", candidate, None, None),
                        Ev("adjust", err, candidate, adjusted, None) >>
         IN IF adjusted # None
            THEN [flow |-> adjusted,
                  backoff |-> pulled.rest,
                  events |-> Append(head, Ev("notify", err, None, adjusted, None))]
            ELSE [flow |-> None, backoff |-> pulled.rest, events |-> head]

\* decide that stops as soon as the pull leaves the backoff source empty.
decide_stop_on_last_delay(cfg, err) ==
    IF ~cfg.retryable[err]
    THEN [flow |-> None,
          backoff |-> cfg.backoff,
          events |-> << Ev("reject", err, None, None, None) >>]
    ELSE LET pulled == BackoffNext(cfg.backoff)
             candidate == IF pulled.rest = << >> THEN None ELSE pulled.item
             adjusted == cfg.adjust[err, candidate]
             head == << Ev("accept", err, None, None, None),
                        Ev("pull", "", candidate, None, None),
                        Ev("adjust", err, candidate, adjusted, None) >>
         IN IF adjusted # None
            THEN [flow |-> adjusted,
                  backoff |-> pulled.rest,
                  events |-> Append(head, Ev("notify", err, None, adjusted, None))]
            ELSE [flow |-> None, backoff |-> pulled.rest, events |-> head]

\* decide that pulls twice from the backoff source and uses the second pull.
decide_pull_twice(cfg, err) ==
    IF ~cfg.retryable[err]
    THEN [flow |-> None,
          backoff |-> cfg.backoff,
          events |-> << Ev("reject", err, None, None, None) >>]
    ELSE LET first == BackoffNext(cfg.backoff)
             pulled == BackoffNext(first.rest)
             candidate == pulled.item
             adjusted == cfg.adjust[err, candidate]
             head == << Ev("accept", err, None, None, None),
                        Ev("pull", "", first.item, None, None),
                        Ev("pull", "", candidate, None, None),
                        Ev("adjust", err, candidate, adjusted, None) >>
         IN IF adjusted # None
            THEN [flow |-> adjusted,
                  backoff |-> pulled.rest,
                  events |-> Append(head, Ev("notify", err, None, adjusted, None))]
            ELSE [flow |-> None, backoff |-> pulled.rest, events |-> head]

\* decide that calls adjust but continues on the backoff candidate.
decide_ignore_adjust(cfg, err) ==
    IF ~cfg.retryable[err]
    THEN [flow |-> None,
          backoff |-> cfg.backoff,
          events |-> << Ev("reject", err, None, None, None) >>]
    ELSE LET pulled == BackoffNext(cfg.backoff)
             candidate == pulled.item
             adjusted == cfg.adjust[err, candidate]
             head == << Ev("accept", err, None, None, None),
                        Ev("pull", "", candidate, None, None),
                        Ev("adjust", err, candidate, adjusted, None) >>
         IN IF candidate # None
            THEN [flow |-> candidate,
                  backoff |-> pulled.rest,
                  events |-> Append(head, Ev("notify", err, None, candidate, None))]
            ELSE [flow |-> None, backoff |-> pulled.rest, events |-> head]

\* decide that notifies with the backoff candidate, before adjust is asked.
decide_notify_candidate(cfg, err) ==
    IF ~cfg.retryable[err]
    THEN [flow |-> None,
          backoff |-> cfg.backoff,
          events |-> << Ev("reject", err, None, None, None) >>]
    ELSE LET pulled == BackoffNext(cfg.backoff)
             candidate == pulled.item
             adjusted == cfg.adjust[err, candidate]
             told == IF candidate # None
                     THEN << Ev("notify", err, None, candidate, None) >>
                     ELSE << >>
             events == << Ev("accept", err, None, None, None),
                          Ev("pull", "", candidate, None, None) >>
                       \o told
                       \o << Ev("adjust", err, candidate, adjusted, None) >>
         IN [flow |-> adjusted, backoff |-> pulled.rest, events |-> events]

\* decide that returns Break on an exhausted backoff without asking adjust.
decide_exhausted_skips_adjust(cfg, err) ==
    IF ~cfg.retryable[err]
    THEN [flow |-> None,
          backoff |-> cfg.backoff,
          events |-> << Ev("reject", err, None, None, None) >>]
    ELSE LET pulled == BackoffNext(cfg.backoff)
             candidate == pulled.item
             adjusted == cfg.adjust[err, candidate]
             head == << Ev("accept", err, None, None, None),
                        Ev("pull", "", candidate, None, None) >>
             asked == Append(head, Ev("adjust", err, candidate, adjusted, None))
         IN IF candidate = None
            THEN [flow |-> None, backoff |-> pulled.rest, events |-> head]
            ELSE IF adjusted # None
            THEN [flow |-> adjusted,
                  backoff |-> pulled.rest,
                  events |-> Append(asked, Ev("notify", err, None, adjusted, None))]
            ELSE [flow |-> None, backoff |-> pulled.rest, events |-> asked]

\* decide that asks adjust (with no candidate) even for a rejected error.
decide_adjust_on_reject(cfg, err) ==
    IF ~cfg.retryable[err]
    THEN [flow |-> None,
          backoff |-> cfg.backoff,
          events |-> << Ev("reject", err, None, None, None),
                        Ev("adjust", err, None, cfg.adjust[err, None], None) >>]
    ELSE LET pulled == BackoffNext(cfg.backoff)
             candidate == pulled.item
             adjusted == cfg.adjust[err, candidate]
             head == << Ev("accept", err, None, None, None),
                        Ev("pull", "", candidate, None, None),
                        Ev("adjust", err, candidate, adjusted, None) >>
         IN IF adjusted # None
            THEN [flow |-> adjusted,
                  backoff |-> pulled.rest,
                  events |-> Append(head, Ev("notify", err, None, adjusted, None))]
            ELSE [flow |-> None, backoff |-> pulled.rest, events |-> head]

\* decide that pulls and asks adjust first and evaluates the predicate last.
decide_predicate_last(cfg, err) ==
    LET pulled == BackoffNext(cfg.backoff)
        candidate == pulled.item
        adjusted == cfg.adjust[err, candidate]
        head == << Ev("pull", "", candidate, None, None),
                   Ev("adjust", err, candidate, adjusted, None) >>
    IN IF ~cfg.retryable[err]
       THEN [flow |-> None,
             backoff |-> pulled.rest,
             events |-> Append(head, Ev("reject", err, None, None, None))]
       ELSE IF adjusted # None
       THEN [flow |-> adjusted,
             backoff |-> pulled.rest,
             events |-> head \o << Ev("accept", err, None, None, None),
                                   Ev("notify", err, None, adjusted, None) >>]
       ELSE [flow |-> None,
             backoff |-> pulled.rest,
             events |-> Append(head, Ev("accept", err, None, None, None))]

\* decide that continues with the last delay after the backoff has run out.
decide_never_exhausted(cfg, err) ==
    IF ~cfg.retryable[err]
    THEN [flow |-> None,
          backoff |-> cfg.backoff,
          events |-> << Ev("reject", err, None, None, None) >>]
    ELSE LET pulled == BackoffNext(cfg.backoff)
             candidate == IF pulled.item = None THEN Some(1) ELSE pulled.item
             adjusted == cfg.adjust[err, candidate]
             head == << Ev("accept", err, None, None, None),
                        Ev("pull", "", candidate, None, None),
                        Ev("adjust", err, candidate, adjusted, None) >>
         IN IF adjusted # None
            THEN [flow |-> adjusted,
                  backoff |-> pulled.rest,
                  events |-> Append(head, Ev("notify", err, None, adjusted, None))]
            ELSE [flow |-> None, backoff |-> pulled.rest, events |-> head]

\* decide that continues without calling notify.
decide_without_notify(cfg, err) ==
    IF ~cfg.retryable[err]
    THEN [flow |-> None,
          backoff |-> cfg.backoff,
          events |-> << Ev("reject", err, None, None, None) >>]
    ELSE LET pulled == BackoffNext(cfg.backoff)
             candidate == pulled.item
             adjusted == cfg.adjust[err, candidate]
         IN [flow |-> adjusted,
             backoff |-> pulled.rest,
             events |-> << Ev("accept", err, None, None, None),
                           Ev("pull", "", candidate, None, None),
                           Ev("adjust", err, candidate, adjusted, None) >>]

\* if !(self.retryable)(err) { return Break(()) }
\* let candidate = self.backoff.next();
\* match (self.adjust)(err, candidate) {
\*     Some(dur) => { (self.notify)(err, dur); Continue(dur) }
\*     None => Break(()) }
\* Returns the verdict, the backoff source after the call and the calls made.
decide(cfg, err) ==
    IF ~cfg.retryable[err]
    THEN [flow |-> None,
          backoff |-> cfg.backoff,
          events |-> << Ev("reject", err, None, None, None) >>]
    ELSE LET pulled == BackoffNext(cfg.backoff)
             candidate == pulled.item
             adjusted == cfg.adjust[err, candidate]
             head == << Ev("accept", err, None, None, None),
                        Ev("pull", "", candidate, None, None),
                        Ev("adjust", err, candidate, adjusted, None) >>
         IN IF adjusted # None
            THEN [flow |-> adjusted,
                  backoff |-> pulled.rest,
                  events |-> Append(head, Ev("notify", err, None, adjusted, None))]
            ELSE [flow |-> None,
                  backoff |-> pulled.rest,
                  events |-> head]

\* -------------------------------------------------- the generated closures

\* What one run of the wrapped body does: its outcome and, when the
\* arguments are threaded as a context, how it changes them (a counter,
\* incremented or left alone).
Bodies == [outcome : Outcomes, bump : {0, 1}]

\* A closure that returns the context it was given, not the bindings as the
\* body left them.
ContextClosure_stale(ctx, body) == [ctx |-> ctx, result |-> body.outcome]

\* (|__backon_ctx| { let #pattern = __backon_ctx;
\*                   let __backon_result = #body;
\*                   (#return_context, __backon_result) })
\* The attempt takes the context by value and returns it, as the body left
\* it, beside the body's result.
ContextClosure(ctx, body) == [ctx |-> ctx + body.bump, result |-> body.outcome]

\* (|| #body): the attempt of the simple chain returns the body's result.
SimpleClosure(body) == body.outcome

\* A tail that returns an error of its own making in place of the attempt's.
ContextTail_synthesized(pair) == IF pair.result.ok THEN pair.result ELSE Err("e1")

\* let (__backon_context, __backon_result) = chain.context(initial).await;
\* let _ = __backon_context;
\* __backon_result
ContextTail(pair) == pair.result

\* chain.await / chain.call(): the simple chain's value is the result.
SimpleTail(res) == res

\* let __backon_initial_context: #context_ty = #initial_context;
InitialContext == Some(0)

\* ------------------------------------------------- the #[backon] attribute

\* Most parameters an annotated function takes besides its receiver.
MaxParams == 2

\* syn::Receiver: `self` with or without `&` and `mut`.
Receivers == [reference : BOOLEAN, mutability : BOOLEAN]

\* A parameter's pattern: an identifier (Pat::Ident) or any other pattern.
Patterns == {"ident", "pattern"}

\* The signature of the annotated function.
Items ==
    [async : BOOLEAN,
     receiver : {None} \cup {Some(r) : r \in Receivers},
     params : SeqsUpTo(Patterns, MaxParams)]

\* struct BackonArgs: which paths are given, and the context flag.
ArgSets ==
    [backoff : BOOLEAN, sleep : BOOLEAN, when : BOOLEAN, notify : BOOLEAN,
     adjust : BOOLEAN, context : BOOLEAN]

\* The chain the expansion emits: the trait brought into scope, how the
\* chain is run, whether .context(initial) is called, the hooks attached
\* in order, and how a receiver reaches the attempts ("" when none).
Chain(trait, exec, context, hooks, receiver) ==
    [trait |-> trait, exec |-> exec, context |-> context, hooks |-> hooks,
     receiver |-> receiver]

NoChain == Chain("", "", FALSE, << >>, "")

\* syn::Result of an expansion.
Expanded(chain) == [ok |-> TRUE, error |-> "", chain |-> chain]
Rejected(error) == [ok |-> FALSE, error |-> error, chain |-> NoChain]

\* if let Some(path) = config.sleep { chain.sleep(path) } ... when, notify,
\* adjust: the hooks attached to the chain, in this order.
AttachedHooks(a) ==
    (IF a.sleep THEN << "sleep" >> ELSE << >>)
        \o (IF a.when THEN << "when" >> ELSE << >>)
        \o (IF a.notify THEN << "notify" >> ELSE << >>)
        \o (IF a.adjust THEN << "adjust" >> ELSE << >>)

\* A simple chain that is always run with .call().
build_simple_chain_blocking(a, sig) ==
    Expanded(Chain("BlockingRetryable", "call", FALSE, AttachedHooks(a), ""))

\* fn build_simple_chain: (|| body).retry(builder)...; `.await` under
\* Retryable when async, `.call()` under BlockingRetryable otherwise.
build_simple_chain(a, sig) ==
    Expanded(Chain(IF sig.async THEN "Retryable" ELSE "BlockingRetryable",
                   IF sig.async THEN "await" ELSE "call",
                   FALSE, AttachedHooks(a), ""))

\* fn build_with_context_chain: (|ctx| ...).retry(builder)...
\* .context(initial) and `.await` under RetryableWithContext when async,
\* `.call()` under BlockingRetryableWithContext otherwise.
build_with_context_chain(a, sig) ==
    Expanded(Chain(IF sig.async THEN "RetryableWithContext"
                                ELSE "BlockingRetryableWithContext",
                   IF sig.async THEN "await" ELSE "call",
                   TRUE, AttachedHooks(a), ""))

\* fn collect_arg_idents: every typed parameter must be a Pat::Ident.
collect_arg_idents(sig) ==
    IF \E i \in 1..Len(sig.params) : sig.params[i] # "ident"
    THEN Rejected("parameters must bind to identifiers")
    ELSE Expanded(NoChain)

\* fn prepare_context: a receiver is skipped unless include_receiver (an
\* owned one is then an error); every typed parameter must be a Pat::Ident.
prepare_context(sig, include_receiver) ==
    IF include_receiver /\ sig.receiver # None /\ ~sig.receiver[1].reference
    THEN Rejected("context = true does not support methods that take ownership of self")
    ELSE IF \E i \in 1..Len(sig.params) : sig.params[i] # "ident"
    THEN Rejected("context = true requires arguments to bind to identifiers")
    ELSE Expanded(NoChain)

\* A build_function_body without the check of adjust against asyncness.
build_function_body_any_adjust(a, sig) ==
    IF a.context
    THEN IF prepare_context(sig, FALSE).ok
         THEN build_with_context_chain(a, sig)
         ELSE prepare_context(sig, FALSE)
    ELSE build_simple_chain(a, sig)

\* fn build_function_body (called with no precomputed context,
\* force_context = false, include_receiver = false): adjust needs an async
\* function; context = true prepares the context and builds the context
\* chain, otherwise the simple chain is built.
build_function_body(a, sig) ==
    IF a.adjust /\ ~sig.async
    THEN Rejected("adjust is only available for async functions")
    ELSE IF a.context
    THEN IF prepare_context(sig, FALSE).ok
         THEN build_with_context_chain(a, sig)
         ELSE prepare_context(sig, FALSE)
    ELSE build_simple_chain(a, sig)

\* The wrapper of a `&self` method calls the helper with `self`: the
\* attempts get the receiver as a shared reference.
WithSharedReceiver(res) ==
    IF res.ok THEN Expanded([res.chain EXCEPT !.receiver = "&self"]) ELSE res

\* An expand_method without the check of context = true.
expand_method_any_context(a, method) ==
    IF method.receiver = None THEN build_function_body(a, method)
    ELSE IF method.receiver[1].mutability
    THEN Rejected("does not yet support methods taking &mut self")
    ELSE IF ~method.receiver[1].reference
    THEN Rejected("does not support methods that take ownership of self")
    ELSE IF ~collect_arg_idents(method).ok THEN collect_arg_idents(method)
    ELSE WithSharedReceiver(build_function_body(a, method))

\* fn expand_method: without a receiver the body is wrapped as a function;
\* `mut`, an owned `self`, context = true and non-identifier parameters
\* are rejected in this order; else the helper call is wrapped.
expand_method(a, method) ==
    IF method.receiver = None THEN build_function_body(a, method)
    ELSE IF method.receiver[1].mutability
    THEN Rejected("does not yet support methods taking &mut self")
    ELSE IF ~method.receiver[1].reference
    THEN Rejected("does not support methods that take ownership of self")
    ELSE IF a.context
    THEN Rejected("context = true is not supported for methods taking &self")
    ELSE IF ~collect_arg_idents(method).ok THEN collect_arg_idents(method)
    ELSE WithSharedReceiver(build_function_body(a, method))

\* fn expand_backon: an item with a receiver is expanded as a method, any
\* other function has its block replaced by the block build_function_body gives.
expand_backon(a, it) ==
    IF it.receiver # None THEN expand_method(a, it)
    ELSE build_function_body(a, it)

\* No expansion is under way (the state of these variables in a session).
NoExpansion ==
    /\ item = [async |-> FALSE, receiver |-> None, params |-> << >>]
    /\ args = [backoff |-> FALSE, sleep |-> FALSE, when |-> FALSE, notify |-> FALSE,
               adjust |-> FALSE, context |-> FALSE]
    /\ expansion = None

\* struct RetryConfig { backoff, sleep, retryable, notify, adjust }
RetryConfig(backoff, sleep, retryable, notify, adjust) ==
    [backoff |-> backoff, sleep |-> sleep, retryable |-> retryable,
     notify |-> notify, adjust |-> adjust]

\* No RetryConfig is under construction.
NoBuild ==
    /\ built = RetryConfig(<< >>, "", always_retry, "", identity_adjust)
    /\ applied = << >>

\* No arguments are being parsed.
NoParse ==
    /\ tokens = << >>
    /\ parsed = None

\* A single call: there is no other call.
NoPeer ==
    /\ me = 1
    /\ src = 0
    /\ parked = << >>
    /\ heap = << >>

\* ------------------------------------------------------------ log queries

\* The calls of the given kinds, in order.
Calls(kinds) == SelectSeq(log, LAMBDA e : e.ev \in kinds)

Count(kinds) == Len(Calls(kinds))

NumInvocations == Count({"invoke"})
Attempts == Calls({"ok", "err"})
LastEvent == log[Len(log)]
Terminated == state \in {"Succeeded", "Failed"}

\* -------------------------------------------------------------- the driver

Init ==
    /\ state = "Ready"
    /\ backoff0 \in BackoffSeqs
    /\ \E r \in RetryFns, a \in AdjustFns :
           config = [backoff |-> backoff0, retryable |-> r, adjust |-> a]
    /\ withContext \in BOOLEAN
    /\ driverCtx = IF withContext THEN InitialContext ELSE None
    /\ opCtx = None
    /\ log = << >>
    /\ result = None
    /\ bodyCtx = None
    /\ NoExpansion
    /\ NoPeer
    /\ NoParse
    /\ NoBuild

\* An invocation that hands the attempt a copy and keeps the context.
Invoke_keeping_context ==
    /\ opCtx' = driverCtx
    /\ driverCtx' = driverCtx
    /\ state' = "Attempting"

\* Step 1 of the loop: invoke the operation.  The context, if any, moves
\* from the driver into the attempt.
Invoke ==
    /\ opCtx' = driverCtx
    /\ driverCtx' = None
    /\ state' = "Attempting"

\* Ready -> Attempting: the first invocation.
Begin ==
    /\ state = "Ready"
    /\ Invoke
    /\ log' = Append(log, Ev("invoke", "", None, None, driverCtx))
    /\ UNCHANGED <<config, backoff0, withContext, result, bodyCtx, others>>

\* The arguments as the body of the attempt in progress leaves them (None
\* without context threading).
BodyLeaves(body) == IF withContext THEN Some(opCtx[1] + body.bump) ELSE None

\* What the attempt in progress hands back to the driver: the outcome and
\* the context (None without context threading).
Returned(body) ==
    IF withContext
    THEN LET pair == ContextClosure(opCtx[1], body)
         IN [ctx |-> Some(pair.ctx), outcome |-> pair.result]
    ELSE [ctx |-> None, outcome |-> SimpleClosure(body)]

\* What the wrapped call returns for the driver's final (context, outcome).
Surface(ret) ==
    IF withContext
    THEN ContextTail([ctx |-> ret.ctx, result |-> ret.outcome])
    ELSE SimpleTail(ret.outcome)

\* Step 2: the attempt succeeds; the value is returned and the session ends.
Succeed(body) ==
    /\ state = "Attempting"
    /\ body.outcome.ok
    /\ LET ret == Returned(body)
       IN /\ log' = Append(log, Ev("ok", ret.outcome.val, None, None, ret.ctx))
          /\ result' = Some(Surface(ret))
    /\ state' = "Succeeded"
    /\ opCtx' = None
    /\ driverCtx' = None
    /\ bodyCtx' = BodyLeaves(body)
    /\ UNCHANGED <<config, backoff0, withContext, others>>

\* A failure step that, on Continue, starts the next attempt at once
\* instead of sleeping first.
Fail_without_sleep(body) ==
    /\ state = "Attempting"
    /\ ~body.outcome.ok
    /\ LET ret == Returned(body)
           d == decide(config, ret.outcome.val)
           seen == Append(log, Ev("err", ret.outcome.val, None, None, ret.ctx)) \o d.events
       IN /\ config' = [config EXCEPT !.backoff = d.backoff]
          /\ IF d.flow = None
             THEN /\ state' = "Failed"
                  /\ result' = Some(Surface(ret))
                  /\ driverCtx' = None
                  /\ opCtx' = None
                  /\ log' = seen
             ELSE /\ state' = IF NumInvocations < MaxAttempts THEN "Attempting" ELSE "Sleeping"
                  /\ result' = result
                  /\ driverCtx' = IF NumInvocations < MaxAttempts THEN None ELSE ret.ctx
                  /\ opCtx' = IF NumInvocations < MaxAttempts THEN ret.ctx ELSE None
                  /\ log' = IF NumInvocations < MaxAttempts
                            THEN Append(seen, Ev("invoke", "", None, None, ret.ctx))
                            ELSE Append(seen, Ev("sleep", "", None, d.flow, None))
    /\ bodyCtx' = BodyLeaves(body)
    /\ UNCHANGED <<backoff0, withContext, others>>

\* Step 3: the attempt fails; decide(e) is consulted.  Stop returns the
\* error; Continue(delay) starts sleep(delay) with the context back in the
\* driver.
Fail(body) ==
    /\ state = "Attempting"
    /\ ~body.outcome.ok
    /\ LET ret == Returned(body)
           d == decide(config, ret.outcome.val)
           seen == Append(log, Ev("err", ret.outcome.val, None, None, ret.ctx)) \o d.events
       IN /\ config' = [config EXCEPT !.backoff = d.backoff]
          /\ IF d.flow = None
             THEN /\ state' = "Failed"
                  /\ result' = Some(Surface(ret))
                  /\ driverCtx' = None
                  /\ log' = seen
             ELSE /\ state' = "Sleeping"
                  /\ result' = result
                  /\ driverCtx' = ret.ctx
                  /\ log' = Append(seen, Ev("sleep", "", None, d.flow, None))
    /\ opCtx' = None
    /\ bodyCtx' = BodyLeaves(body)
    /\ UNCHANGED <<backoff0, withContext, others>>

\* A wake-up that also restarts a session that decide has stopped.
Wake_after_stop ==
    /\ state \in {"Sleeping", "Failed"}
    /\ NumInvocations < MaxAttempts
    /\ Invoke
    /\ log' = log \o << Ev("wake", "", None, LastEvent.dur, None),
                        Ev("invoke", "", None, None, driverCtx) >>
    /\ UNCHANGED <<config, backoff0, withContext, result, bodyCtx, others>>

\* Sleeping -> Attempting: the sleep completes and the loop repeats from
\* step 1.
Wake ==
    /\ state = "Sleeping"
    /\ NumInvocations < MaxAttempts
    /\ Invoke
    /\ log' = log \o << Ev("wake", "", None, LastEvent.dur, None),
                        Ev("invoke", "", None, None, driverCtx) >>
    /\ UNCHANGED <<config, backoff0, withContext, result, bodyCtx, others>>

Next ==
    \/ Begin
    \/ \E body \in Bodies : Succeed(body)
    \/ \E body \in Bodies : Fail(body)
    \/ Wake

Spec == Init /\ [][Next]_vars

\* An attempt in progress returns.
AttemptCompletes == \E body \in Bodies : Succeed(body) \/ Fail(body)

\* The call is made, every attempt completes and every sleep completes.
Fairness ==
    /\ WF_vars(Begin)
    /\ WF_vars(AttemptCompletes)
    /\ WF_vars(Wake)

FairSpec == Spec /\ Fairness

TypeOK ==
    /\ state \in {"Ready", "Attempting", "Sleeping", "Succeeded", "Failed"}
    /\ config.backoff \in BackoffSeqs
    /\ driverCtx \in {None} \cup {Some(c) : c \in 0..MaxAttempts}
    /\ opCtx \in {None} \cup {Some(c) : c \in 0..MaxAttempts}
    /\ result \in {None} \cup {Some(o) : o \in Outcomes}
    /\ bodyCtx \in {None} \cup {Some(c) : c \in 0..MaxAttempts}

\* ------------------------------------------- expansion at definition time

\* No session runs while the attribute is expanded.
NoSession ==
    /\ state = "Ready"
    /\ backoff0 = << >>
    /\ config = [backoff |-> << >>, retryable |-> always_retry, adjust |-> identity_adjust]
    /\ withContext = FALSE
    /\ driverCtx = None
    /\ opCtx = None
    /\ log = << >>
    /\ result = None
    /\ bodyCtx = None

InitMacro ==
    /\ item \in Items
    /\ args \in ArgSets
    /\ expansion = None
    /\ NoSession
    /\ NoPeer
    /\ NoParse
    /\ NoBuild

\* pub fn backon(args, input): the attribute is expanded once.
Expand ==
    /\ expansion = None
    /\ expansion' = Some(expand_backon(args, item))
    /\ UNCHANGED <<item, args, session, peers, parser, builder>>

NextMacro == Expand

SpecMacro == InitMacro /\ [][NextMacro]_vars

\* ------------------------------------------- parsing the attribute's arguments

\* Most `key = value` arguments written in one attribute.
MaxArgs == 3

\* The keys whose value is a path, and a key the attribute does not know.
PathKeys == {"backoff", "sleep", "when", "notify", "adjust"}
UnknownKey == "retries"

\* One `key = value` argument: a path for the path keys (any path: TRUE),
\* a boolean literal for context.
Arguments ==
    [key : PathKeys \cup {UnknownKey}, value : {TRUE}]
        \cup [key : {"context"}, value : BOOLEAN]

\* BackonArgs::default(): no path given, context false.
DefaultArgs ==
    [backoff |-> FALSE, sleep |-> FALSE, when |-> FALSE, notify |-> FALSE,
     adjust |-> FALSE, context |-> FALSE]

\* syn::Result<BackonArgs>
Parsed(a) == [ok |-> TRUE, error |-> "", args |-> a]
ParseError(error) == [ok |-> FALSE, error |-> error, args |-> DefaultArgs]

\* fn ensure_path_unset(already, span)
ensure_path_unset(already) ==
    IF already THEN ParseError("parameter already specified") ELSE Parsed(DefaultArgs)

RECURSIVE parse_loop(_, _)
\* while !input.is_empty() { match key { ... } }: a path key must be unset
\* and is set; context is an error if args.context is true, else it takes
\* the literal's value; any other key is an error.
parse_loop(a, input) ==
    IF input = << >> THEN Parsed(a)
    ELSE LET key == Head(input).key
             value == Head(input).value
         IN IF key \in PathKeys
            THEN IF ~ensure_path_unset(a[key]).ok
                 THEN ensure_path_unset(a[key])
                 ELSE parse_loop([a EXCEPT ![key] = TRUE], Tail(input))
            ELSE IF key = "context"
            THEN IF a.context
                 THEN ParseError("context cannot be specified more than once")
                 ELSE parse_loop([a EXCEPT !.context = value], Tail(input))
            ELSE ParseError("unknown parameter")

\* impl Parse for BackonArgs: fn parse(input)
parse(input) ==
    IF input = << >> THEN Parsed(DefaultArgs) ELSE parse_loop(DefaultArgs, input)

InitParse ==
    /\ tokens \in SeqsUpTo(Arguments, MaxArgs)
    /\ parsed = None
    /\ NoSession
    /\ NoPeer
    /\ NoExpansion
    /\ NoBuild

\* parse_macro_input / syn::parse: the arguments are parsed once.
Parse ==
    /\ parsed = None
    /\ parsed' = Some(parse(tokens))
    /\ UNCHANGED <<tokens, session, macro, peers, builder>>

NextParse == Parse

SpecParse == InitParse /\ [][NextParse]_vars

\* ------------------------------------------------ building a RetryConfig

\* Most builder calls made on one RetryConfig.
MaxSteps == 4

\* The hooks a builder call may be given: the default and one other each.
SleepFns == {"default_sleep", "custom_sleep"}
NotifyFns == {"noop_notify", "custom_notify"}
BuilderRetryFns == {always_retry, [e \in Errors |-> e = "e1"]}
BuilderAdjustFns == {identity_adjust, adjust_stop}

\* RetryConfig::new(backoff, sleep, retryable, notify, adjust)
new(backoff, sleep, retryable, notify, adjust) ==
    RetryConfig(backoff, sleep, retryable, notify, adjust)

\* fn with_sleep(self, sleep)
with_sleep(self, sleep) ==
    RetryConfig(self.backoff, sleep, self.retryable, self.notify, self.adjust)

\* A with_retryable that builds the rest of the config anew.
with_retryable_from_defaults(self, retryable) ==
    RetryConfig(self.backoff, self.sleep, retryable, self.notify, identity_adjust)

\* fn with_retryable(self, retryable)
with_retryable(self, retryable) ==
    RetryConfig(self.backoff, self.sleep, retryable, self.notify, self.adjust)

\* fn with_notify(self, notify)
with_notify(self, notify) ==
    RetryConfig(self.backoff, self.sleep, self.retryable, notify, self.adjust)

\* fn with_adjust(self, adjust)
with_adjust(self, adjust) ==
    RetryConfig(self.backoff, self.sleep, self.retryable, self.notify, adjust)

\* A builder call: which hook it was given.
Given(hook, value) == [hook |-> hook, value |-> value]

\* A config is made with the default hooks over a backoff source that may
\* have advanced already.
InitBuild ==
    /\ \E b \in BackoffSeqs :
           built = new(b, "default_sleep", always_retry, "noop_notify", identity_adjust)
    /\ applied = << >>
    /\ NoSession
    /\ NoPeer
    /\ NoExpansion
    /\ NoParse

WithSleep(sleep) ==
    /\ Len(applied) < MaxSteps
    /\ built' = with_sleep(built, sleep)
    /\ applied' = Append(applied, Given("sleep", sleep))
    /\ UNCHANGED <<session, macro, peers, parser>>

WithRetryable(retryable) ==
    /\ Len(applied) < MaxSteps
    /\ built' = with_retryable(built, retryable)
    /\ applied' = Append(applied, Given("retryable", retryable))
    /\ UNCHANGED <<session, macro, peers, parser>>

WithNotify(notify) ==
    /\ Len(applied) < MaxSteps
    /\ built' = with_notify(built, notify)
    /\ applied' = Append(applied, Given("notify", notify))
    /\ UNCHANGED <<session, macro, peers, parser>>

WithAdjust(adjust) ==
    /\ Len(applied) < MaxSteps
    /\ built' = with_adjust(built, adjust)
    /\ applied' = Append(applied, Given("adjust", adjust))
    /\ UNCHANGED <<session, macro, peers, parser>>

NextBuild ==
    \/ \E sleep \in SleepFns : WithSleep(sleep)
    \/ \E retryable \in BuilderRetryFns : WithRetryable(retryable)
    \/ \E notify \in NotifyFns : WithNotify(notify)
    \/ \E adjust \in BuilderAdjustFns : WithAdjust(adjust)

SpecBuild == InitBuild /\ [][NextBuild]_vars

\* ------------------------------------------------- two concurrent calls

\* The session variables of a call, as a record (what is parked while the
\* other call runs).
Session(st, cfg, dctx, octx, lg, res, bctx, source) ==
    [state |-> st, config |-> cfg, driverCtx |-> dctx, opCtx |-> octx, log |-> lg,
     result |-> res, bodyCtx |-> bctx, src |-> source]

Running == Session(state, config, driverCtx, opCtx, log, result, bodyCtx, src)

\* Two calls of the same wrapped operation (same hooks, same factory) are
\* made; neither has entered the generated body yet.
InitTwo ==
    /\ state = "Uncalled"
    /\ backoff0 \in BackoffSeqs
    /\ \E r \in {always_retry, [e \in Errors |-> e = "e1"]} :
           config = [backoff |-> << >>, retryable |-> r, adjust |-> identity_adjust]
    /\ withContext = FALSE
    /\ driverCtx = None
    /\ opCtx = None
    /\ log = << >>
    /\ result = None
    /\ bodyCtx = None
    /\ me = 1
    /\ src = 0
    /\ parked = << Running >>
    /\ heap = << >>
    /\ NoExpansion
    /\ NoParse
    /\ NoBuild

\* A call that takes the source an earlier call made instead of calling
\* the factory.
Call_sharing_source ==
    /\ state = "Uncalled"
    /\ heap' = IF heap = << >> THEN << backoff0 >> ELSE heap
    /\ src' = 1
    /\ config' = [config EXCEPT !.backoff = heap'[1]]
    /\ state' = "Ready"
    /\ driverCtx' = IF withContext THEN InitialContext ELSE None
    /\ UNCHANGED <<backoff0, withContext, opCtx, log, result, bodyCtx, me, parked, macro, parser, builder>>

\* The generated body starts: let __backon_builder = (#backoff_path)();
\* the factory returns a new source, owned by this call's chain.
Call ==
    /\ state = "Uncalled"
    /\ heap' = Append(heap, backoff0)
    /\ src' = Len(heap) + 1
    /\ config' = [config EXCEPT !.backoff = heap'[src']]
    /\ state' = "Ready"
    /\ driverCtx' = IF withContext THEN InitialContext ELSE None
    /\ UNCHANGED <<backoff0, withContext, opCtx, log, result, bodyCtx, me, parked, macro, parser, builder>>

\* The scheduler suspends the running call and resumes the other one.  A
\* call reads and writes its source through the source's identity.
Switch ==
    /\ parked # << >>
    /\ LET stored == IF src = 0 THEN heap ELSE [heap EXCEPT ![src] = config.backoff]
           next == parked[1]
       IN /\ heap' = stored
          /\ parked' = << Running >>
          /\ me' = 3 - me
          /\ src' = next.src
          /\ state' = next.state
          /\ config' = IF next.src = 0 THEN next.config
                       ELSE [next.config EXCEPT !.backoff = stored[next.src]]
          /\ driverCtx' = next.driverCtx
          /\ opCtx' = next.opCtx
          /\ log' = next.log
          /\ result' = next.result
          /\ bodyCtx' = next.bodyCtx
    /\ UNCHANGED <<backoff0, withContext, macro, parser, builder>>

NextTwo ==
    \/ Call
    \/ Begin
    \/ \E body \in Bodies : Succeed(body)
    \/ \E body \in Bodies : Fail(body)
    \/ Wake
    \/ Switch

SpecTwo == InitTwo /\ [][NextTwo]_vars

\* ------------------------------------------------------------- properties

\* The calls a step adds to the log.
Added == SubSeq(log', Len(log) + 1, Len(log'))

AllAccepted == config.retryable = always_retry
IdentityAdjust == config.adjust = identity_adjust
AllFailed(n) == \A i \in 1..n : Attempts[i].ev = "err"

\* C1: when the retryable predicate returns false for the error, decide's
\* verdict is Stop (the session fails) and the backoff source is left as it
\* was: no pull is made.
C1_RejectionLeavesBackoff ==
    [][\A e \in Errors :
          (/\ state = "Attempting"
           /\ Len(log') > Len(log)
           /\ Added[1].ev = "err"
           /\ Added[1].s = e
           /\ ~config.retryable[e])
          => /\ state' = "Failed"
             /\ config'.backoff = config.backoff
             /\ \A i \in 1..Len(Added) : Added[i].ev # "pull"]_vars

\* C1 witness: a rejected error ended the session after an accepted one,
\* and a delay is still waiting in the backoff source.
C1_Witness ==
    /\ state = "Failed"
    /\ LastEvent.ev = "reject"
    /\ Count({"accept"}) >= 1
    /\ config.backoff # << >>

\* The outcome an attempt's log entry records.
OutcomeOf(a) == [ok |-> a.ev = "ok", val |-> a.s]

\* C2: when the predicate rejects the error of the first attempt, the
\* operation is invoked exactly once, sleep and notify are never invoked,
\* and the session's result is that first error.
C2_FirstErrorRejected ==
    (/\ Len(Attempts) >= 1
     /\ Attempts[1].ev = "err"
     /\ ~config.retryable[Attempts[1].s])
    => /\ state = "Failed"
       /\ NumInvocations = 1
       /\ Count({"sleep", "wake"}) = 0
       /\ Count({"notify"}) = 0
       /\ result = Some(Err(Attempts[1].s))

\* C2 witness: a session ended by the rejection of its first error, with
\* delays left in its backoff source.
C2_Witness ==
    /\ state = "Failed"
    /\ Len(Attempts) = 1
    /\ ~config.retryable[Attempts[1].s]
    /\ config.backoff # << >>
    /\ log[Len(log)].ev = "reject"

\* C3: with a predicate that accepts every error, the identity adjust and
\* a backoff source of exactly N delays, a session whose first N
\* invocations fail is never stopped before invocation N+1, and when
\* invocation N+1 succeeds the session has made exactly N+1 invocations and
\* returns that invocation's success value.
C3_FailuresThenSuccess ==
    (AllAccepted /\ IdentityAdjust)
    => LET N == Len(backoff0)
       IN /\ (Len(Attempts) <= N /\ AllFailed(Len(Attempts))) => ~Terminated
          /\ (/\ Len(Attempts) = N + 1
              /\ AllFailed(N)
              /\ Attempts[N + 1].ev = "ok")
             => /\ state = "Succeeded"
                /\ NumInvocations = N + 1
                /\ Count({"wake"}) = N
                /\ result = Some(Ok(Attempts[N + 1].s))

\* C3 witness: MaxDelays failures, each accepted, then a success.
C3_Witness ==
    /\ AllAccepted
    /\ IdentityAdjust
    /\ Len(backoff0) = MaxDelays
    /\ state = "Succeeded"
    /\ NumInvocations = MaxDelays + 1

\* C4: with a predicate that accepts every error, the identity adjust and
\* a backoff source that first returns None on its K-th pull, a session
\* whose operation always fails makes exactly K invocations and K-1 sleeps
\* and returns the error of the K-th invocation.
C4_ExhaustedOnKthPull ==
    (AllAccepted /\ IdentityAdjust /\ AllFailed(Len(Attempts)))
    => LET K == Len(backoff0) + 1
       IN /\ Len(Attempts) <= K
          /\ Len(Attempts) < K => ~Terminated
          /\ Len(Attempts) = K
             => /\ state = "Failed"
                /\ NumInvocations = K
                /\ Count({"pull"}) = K
                /\ Count({"sleep"}) = K - 1
                /\ Count({"wake"}) = K - 1
                /\ result = Some(Err(Attempts[K].s))

\* C4 witness: the backoff source ran dry on pull MaxDelays + 1 and the
\* last error, different from the first, was returned.
C4_Witness ==
    /\ AllAccepted
    /\ IdentityAdjust
    /\ Len(backoff0) = MaxDelays
    /\ state = "Failed"
    /\ Len(Attempts) = MaxDelays + 1
    /\ Attempts[1].s # Attempts[MaxDelays + 1].s

\* C5: for an accepted error the verdict is what the adjust hook returns:
\* None stops the session whatever the backoff source supplied, and
\* Some(d') continues with d' passed to notify and to sleep.
C5_AdjustDecides ==
    \A i \in 1..Len(log) :
        log[i].ev = "adjust"
        => /\ log[i].dur = config.adjust[log[i].s, log[i].cand]
           /\ IF log[i].dur = None
              THEN /\ i = Len(log)
                   /\ state = "Failed"
              ELSE /\ Len(log) >= i + 2
                   /\ log[i + 1] = Ev("notify", log[i].s, None, log[i].dur, None)
                   /\ log[i + 2] = Ev("sleep", "", None, log[i].dur, None)

\* C5 witness: in one session adjust replaced a supplied delay by another,
\* which was slept, and later returned None for a supplied delay.
C5_Witness ==
    /\ state = "Failed"
    /\ \E i, j \in 1..Len(log) :
        /\ i < j
        /\ log[i].ev = "adjust"
        /\ log[i].cand # None
        /\ log[i].dur # None
        /\ log[i].dur # log[i].cand
        /\ log[j].ev = "adjust"
        /\ log[j].cand # None
        /\ log[j].dur = None

\* C6: notify is invoked exactly once for each failed attempt that is
\* retried, with that attempt's error and the delay then passed to sleep,
\* and never for the attempt that ends the session.
C6_NotifyPerRetriedAttempt ==
    LET notified == Calls({"notify"})
        slept == Calls({"sleep"})
    IN /\ Len(notified) = Len(slept)
       /\ Len(notified) = Len(Attempts) - (IF Terminated THEN 1 ELSE 0)
       /\ \A k \in 1..Len(notified) :
            /\ Attempts[k].ev = "err"
            /\ notified[k].s = Attempts[k].s
            /\ notified[k].dur = slept[k].dur
       /\ Terminated => LastEvent.ev # "notify"

\* C6 witness: a terminated session with two notifications that differ in
\* error and in delay.
C6_Witness ==
    LET notified == Calls({"notify"})
    IN /\ Terminated
       /\ Len(notified) = 2
       /\ Len(Attempts) = 3
       /\ notified[1].s # notified[2].s
       /\ notified[1].dur # notified[2].dur

\* C7 as stated: whenever a pull for an accepted error returns None, decide
\* returns Stop and the session fails with that error, whatever the adjust
\* hook is.
C7_ExhaustionAlwaysStops ==
    \A i \in 1..Len(log) :
        (log[i].ev = "pull" /\ log[i].cand = None)
        => /\ state = "Failed"
           /\ Len(log) = i + 1
           /\ result = Some(Err(log[i + 1].s))

\* C7 amended: whenever a pull for an accepted error returns None, the
\* adjust hook is asked with (err, None); if it returns None (as the
\* identity does) decide returns Stop and the session fails with that error
\* without another invocation; if it returns Some(d') decide returns
\* Continue(d') and the session sleeps d'.
C7_ExhaustionStopsUnlessAdjusted ==
    \A i \in 1..Len(log) :
        (log[i].ev = "pull" /\ log[i].cand = None)
        => /\ Len(log) >= i + 1
           /\ log[i + 1].ev = "adjust"
           /\ log[i + 1].cand = None
           /\ IF config.adjust[log[i + 1].s, None] = None
              THEN /\ state = "Failed"
                   /\ Len(log) = i + 1
                   /\ result = Some(Err(log[i + 1].s))
                   /\ log[i - 1].ev = "accept"
                   /\ log[i - 2] .ev = "err"
              ELSE /\ Len(log) >= i + 3
                   /\ log[i + 3] = Ev("sleep", "", None, config.adjust[log[i + 1].s, None], None)

\* C7 witness: after delays were used up, the pull returned None, a hook
\* other than the identity returned None for it, and the session failed.
C7_Witness ==
    /\ state = "Failed"
    /\ ~IdentityAdjust
    /\ backoff0 # << >>
    /\ log[Len(log)].ev = "adjust"
    /\ log[Len(log)].cand = None
    /\ log[Len(log)].dur = None

\* C8: the result of a terminated session is the outcome of its last
\* attempt, unchanged (its success value or its error), and there is no
\* result before the session terminates.
C8_ResultIsLastOutcome ==
    /\ Terminated
       => /\ Len(Attempts) = NumInvocations
          /\ Len(Attempts) >= 1
          /\ result = Some(OutcomeOf(Attempts[Len(Attempts)]))
          /\ (state = "Succeeded") = result[1].ok
    /\ ~Terminated => result = None

\* C8 witness: a context-threaded session failed on its third attempt with
\* an error that differs from the errors of the earlier attempts.
C8_Witness ==
    /\ withContext
    /\ state = "Failed"
    /\ Len(Attempts) = 3
    /\ Attempts[1].s # Attempts[3].s
    /\ Attempts[2].s # Attempts[3].s

\* C9: attempts are strictly sequential: at most one attempt is in
\* progress, and every invocation after the first directly follows the
\* completion of the sleep whose delay decide returned as Continue for the
\* error of the previous invocation.
C9_StrictlySequential ==
    LET inProgress == NumInvocations - Len(Attempts)
    IN /\ inProgress \in {0, 1}
       /\ (state = "Attempting") = (inProgress = 1)
       /\ \A i \in 1..Len(log) :
            log[i].ev = "invoke"
            => \/ i = 1
               \/ /\ i >= 8
                  /\ log[i - 1].ev = "wake"
                  /\ log[i - 2].ev = "sleep"
                  /\ log[i - 2].dur = log[i - 1].dur
                  /\ log[i - 3].ev = "notify"
                  /\ log[i - 3].dur = log[i - 2].dur
                  /\ log[i - 4].ev = "adjust"
                  /\ log[i - 4].dur = log[i - 3].dur
                  /\ log[i - 7].ev = "err"
                  /\ log[i - 7].s = log[i - 3].s

\* C9 witness: a third invocation is in progress.
C9_Witness ==
    /\ state = "Attempting"
    /\ NumInvocations = 3
    /\ Len(Attempts) = 2

\* C10: while a context-threaded session runs, its context has exactly one
\* owner: the driver when the session is Ready or Sleeping, the operation
\* while an attempt is in progress; never both, and never two attempts.
C10_SingleOwner ==
    withContext
    => /\ ~(driverCtx # None /\ opCtx # None)
       /\ state \in {"Ready", "Sleeping"} => (driverCtx # None /\ opCtx = None)
       /\ state = "Attempting" => (opCtx # None /\ driverCtx = None)
       /\ ~Terminated => (driverCtx # None) # (opCtx # None)
       /\ NumInvocations - Len(Attempts) <= 1

\* C10 witness: a later attempt holds a context that an earlier attempt
\* updated and the driver held during the sleep.
C10_Witness ==
    /\ withContext
    /\ state = "Attempting"
    /\ NumInvocations = 3
    /\ opCtx # None
    /\ opCtx # InitialContext
    /\ driverCtx = None

\* C11: context round trip: attempt 1 receives the initial context, every
\* later attempt receives exactly the context the attempt before it
\* returned, and an attempt returns the arguments as its body left them; so
\* with a counter that every attempt increments, the context returned by
\* attempt k counts k.
C11_ContextRoundTrip ==
    withContext
    => LET invoked == Calls({"invoke"})
       IN /\ Len(invoked) >= 1 => invoked[1].ctx = InitialContext
          /\ \A i \in 2..Len(invoked) : invoked[i].ctx = Attempts[i - 1].ctx
          /\ state = "Attempting" => opCtx = invoked[Len(invoked)].ctx
          /\ state = "Sleeping" => driverCtx = Attempts[Len(Attempts)].ctx
          /\ Len(Attempts) >= 1 => Attempts[Len(Attempts)].ctx = bodyCtx
          /\ (/\ Len(Attempts) >= 1
              /\ \A i \in 1..Len(Attempts) :
                    Attempts[i].ctx = Some(invoked[i].ctx[1] + 1))
             => Attempts[Len(Attempts)].ctx = Some(InitialContext[1] + Len(Attempts))

\* C11 witness: three failures and a success, every attempt incrementing
\* the counter: the final context counts 4.
C11_Witness ==
    /\ withContext
    /\ state = "Succeeded"
    /\ Len(Attempts) = 4
    /\ AllFailed(3)
    /\ \A i \in 1..4 : Attempts[i].ctx = Some(i)

\* C12: adjust is invoked only for errors the predicate accepted: a
\* rejected error ends decide with no further call; an accepted error is
\* followed by exactly one pull and then exactly one adjust call carrying
\* that error and that pull's candidate, which may be None.
C12_AdjustOnlyWhenAccepted ==
    /\ Count({"adjust"}) = Count({"accept"})
    /\ Count({"pull"}) = Count({"accept"})
    /\ \A i \in 1..Len(log) :
         /\ log[i].ev = "err"
            => /\ Len(log) >= i + 1
               /\ log[i + 1].s = log[i].s
               /\ log[i + 1].ev = (IF config.retryable[log[i].s] THEN "accept" ELSE "reject")
         /\ log[i].ev = "reject" => i = Len(log)
         /\ log[i].ev = "accept"
            => /\ Len(log) >= i + 2
               /\ log[i + 1].ev = "pull"
               /\ log[i + 2] = Ev("adjust", log[i].s, log[i + 1].cand,
                                  config.adjust[log[i].s, log[i + 1].cand], None)
               /\ Len(log) >= i + 3 => log[i + 3].ev # "adjust"

\* C12 witness: adjust was asked with a supplied delay, then with the None
\* of an exhausted source, and the next error was rejected with no call of
\* adjust.
C12_Witness ==
    /\ state = "Failed"
    /\ LastEvent.ev = "reject"
    /\ Count({"adjust"}) = 2
    /\ \E i, j \in 1..Len(log) :
        /\ i < j
        /\ log[i].ev = "adjust"
        /\ log[i].cand # None
        /\ log[j].ev = "adjust"
        /\ log[j].cand = None

\* What an attempt's completion added to the log, when the step is one.
Completed == Len(log') > Len(log) /\ Added[1].ev \in {"ok", "err"}

\* C13: the session starts Ready and moves only Ready -> Attempting,
\* Attempting -> Succeeded on success, Attempting -> Failed on an error with
\* Stop, Attempting -> Sleeping on an error with Continue, and Sleeping ->
\* Attempting when the sleep completes; in Succeeded or Failed nothing
\* happens any more: no invocation, hook call, backoff pull or sleep.
C13_StateMachine ==
    /\ state = "Ready"
    /\ [][/\ state \in {"Ready", "Attempting", "Sleeping", "Succeeded", "Failed"}
          /\ state = "Ready"
             => /\ state' = "Attempting"
                /\ Len(Added) = 1
                /\ Added[1].ev = "invoke"
          /\ state = "Attempting"
             => /\ Completed
                /\ state' \in {"Succeeded", "Failed", "Sleeping"}
                /\ (state' = "Succeeded") = (Added[1].ev = "ok")
                /\ (state' = "Sleeping") = (Added[Len(Added)].ev = "sleep")
                /\ (state' = "Failed") = (Added[Len(Added)].ev \in {"reject", "adjust"})
          /\ state = "Sleeping"
             => /\ state' = "Attempting"
                /\ Len(Added) = 2
                /\ Added[1].ev = "wake"
                /\ Added[2].ev = "invoke"
          /\ Terminated => UNCHANGED vars]_vars

\* C13 witness: a session went Ready, Attempting, Sleeping, Attempting,
\* Sleeping, Attempting and then Succeeded.
C13_Witness ==
    /\ state = "Succeeded"
    /\ Count({"wake"}) = 2
    /\ Count({"sleep"}) = 2
    /\ NumInvocations = 3

\* C19: with the default hooks (always-true predicate, identity adjust,
\* whatever notify does) every error is accepted and decide returns
\* Continue(d) exactly when the pull returns Some(d) and Stop exactly when
\* it returns None.
C19_DefaultHooksFollowBackoff ==
    (AllAccepted /\ IdentityAdjust)
    => /\ Count({"reject"}) = 0
       /\ Count({"pull"}) = Count({"err"})
       /\ \A i \in 1..Len(log) :
            log[i].ev = "pull"
            => /\ log[i - 1].ev = "accept"
               /\ log[i - 2].ev = "err"
               /\ LET k == Len(SelectSeq(SubSeq(log, 1, i), LAMBDA e : e.ev = "pull"))
                  IN log[i].cand = (IF k <= Len(backoff0) THEN Some(backoff0[k]) ELSE None)
               /\ IF log[i].cand = None
                  THEN /\ state = "Failed"
                       /\ Len(log) = i + 1
                  ELSE /\ Len(log) >= i + 3
                       /\ log[i + 2] = Ev("notify", log[i - 1].s, None, log[i].cand, None)
                       /\ log[i + 3] = Ev("sleep", "", None, log[i].cand, None)

\* C19 witness: with the default hooks two different errors were each
\* continued with the delay the backoff source supplied, and the third
\* pull returned None and stopped the session.
C19_Witness ==
    /\ AllAccepted
    /\ IdentityAdjust
    /\ state = "Failed"
    /\ backoff0 = << 1, 2 >>
    /\ Count({"pull"}) = 3
    /\ Attempts[1].s # Attempts[2].s
    /\ Calls({"sleep"})[1].dur = Some(1)
    /\ Calls({"sleep"})[2].dur = Some(2)

\* C20: for every retried attempt the calls come in this order: the
\* operation returns the error, the predicate is evaluated on it, the
\* backoff source is pulled, adjust is applied to the candidate, notify is
\* invoked with the error and the delay, sleep is invoked with the same
\* delay, and only after the sleep completes does the next invocation start.
C20_OrderOfCalls ==
    \A i \in 1..Len(log) :
        log[i].ev = "sleep"
        => /\ i >= 6
           /\ log[i - 5].ev = "err"
           /\ log[i - 4] = Ev("accept", log[i - 5].s, None, None, None)
           /\ log[i - 3].ev = "pull"
           /\ log[i - 2] = Ev("adjust", log[i - 5].s, log[i - 3].cand, log[i].dur, None)
           /\ log[i - 1] = Ev("notify", log[i - 5].s, None, log[i].dur, None)
           /\ log[i].dur # None
           /\ Len(log) > i
              => /\ Len(log) >= i + 2
                 /\ log[i + 1] = Ev("wake", "", None, log[i].dur, None)
                 /\ log[i + 2].ev = "invoke"

\* C20 witness: an attempt was retried with a delay that adjust put in
\* place of the backoff candidate, and the next invocation has started.
C20_Witness ==
    /\ state = "Attempting"
    /\ NumInvocations = 2
    /\ log[4].ev = "pull"
    /\ log[4].cand # None
    /\ log[7].ev = "sleep"
    /\ log[7].dur # log[4].cand


\* ------------------------------------------------ the attribute's claims

\* The expansion has run and gave a chain / an error.
Accepted == expansion # None /\ expansion[1].ok
Refused == expansion # None /\ ~expansion[1].ok

HasReceiver == item.receiver # None
SharedReceiver == item.receiver = Some([reference |-> TRUE, mutability |-> FALSE])
HasPatternParam == \E i \in 1..Len(item.params) : item.params[i] # "ident"

\* The four calling conventions, by (async, context = true).
Convention(async, context) ==
    IF async /\ ~context THEN << "Retryable", "await", FALSE >>
    ELSE IF ~async /\ ~context THEN << "BlockingRetryable", "call", FALSE >>
    ELSE IF async /\ context THEN << "RetryableWithContext", "await", TRUE >>
    ELSE << "BlockingRetryableWithContext", "call", TRUE >>

\* C14: every accepted expansion emits the one calling convention that
\* (is the operation async, is context = true) selects: the trait in scope,
\* .await or .call(), and .context(initial) exactly for context = true.
C14_OneConvention ==
    Accepted
    => LET c == expansion[1].chain
       IN << c.trait, c.exec, c.context >> = Convention(item.async, args.context)

C14_Witness ==
    /\ Accepted
    /\ item.async /\ args.context /\ Len(item.params) = MaxParams
    /\ expansion[1].chain.trait = "RetryableWithContext"

\* C15 (as stated): whatever the receiver and whatever context is, a
\* parameter that is not a plain identifier makes the expansion fail.
C15_PatternParamRejected ==
    (expansion # None /\ HasPatternParam) => Refused

\* C16: `mut` and owned receivers are rejected, `&self` with context = true
\* is rejected; so an accepted context chain has no receiver, and an
\* accepted method passes its receiver as a shared reference.
C16_ReceiverRules ==
    expansion # None
    => /\ (HasReceiver /\ item.receiver[1].mutability) => Refused
       /\ (HasReceiver /\ ~item.receiver[1].reference) => Refused
       /\ (SharedReceiver /\ args.context) => Refused
       /\ (Accepted /\ expansion[1].chain.context) => ~HasReceiver
       /\ (Accepted /\ HasReceiver)
          => SharedReceiver /\ expansion[1].chain.receiver = "&self"
       /\ (Accepted /\ ~HasReceiver) => expansion[1].chain.receiver = ""

C16_Witness ==
    /\ Refused
    /\ SharedReceiver /\ args.context /\ ~args.adjust /\ ~HasPatternParam
    /\ expansion[1].error = "context = true is not supported for methods taking &self"

\* C17: adjust on a non-async function is rejected for every shape; adjust
\* on an async function is attached to the chain, and is never the reason
\* an async function is rejected.
C17_AdjustNeedsAsync ==
    (expansion # None /\ args.adjust)
    => IF ~item.async THEN Refused
       ELSE IF Accepted
       THEN /\ Len(expansion[1].chain.hooks) >= 1
            /\ expansion[1].chain.hooks[Len(expansion[1].chain.hooks)] = "adjust"
       ELSE /\ expansion[1].error # "adjust is only available for async functions"
            /\ ~expand_backon([args EXCEPT !.adjust = FALSE], item).ok

C17_Witness ==
    /\ Refused
    /\ args.adjust /\ ~item.async /\ SharedReceiver /\ ~args.context /\ ~HasPatternParam
    /\ expansion[1].error = "adjust is only available for async functions"


\* ------------------------------------------------- concurrent calls' claim

\* The session of call i, and what is left of the source it owns.
SessionOf(i) == IF me = i THEN Running ELSE parked[1]

Remaining(i) ==
    IF me = i THEN config.backoff
    ELSE IF parked[1].src = 0 THEN << >> ELSE heap[parked[1].src]

IsPrefix(s, t) == Len(s) <= Len(t) /\ SubSeq(t, 1, Len(s)) = s

RECURSIVE Alone(_, _, _)
\* The session that runs alone from configuration cfg and meets the
\* outcomes atts, one per invocation: seen is its log up to the invocation
\* that meets the first of them.
Alone(cfg, atts, seen) ==
    IF atts = << >>
    THEN [log |-> seen, state |-> "Attempting", backoff |-> cfg.backoff, result |-> None]
    ELSE LET a == Head(atts)
             d == decide(cfg, a.s)
             failed == Append(seen, a) \o d.events
         IN IF a.ev = "ok"
            THEN [log |-> Append(seen, a), state |-> "Succeeded",
                  backoff |-> cfg.backoff, result |-> Some(Ok(a.s))]
            ELSE IF d.flow = None
            THEN [log |-> failed, state |-> "Failed",
                  backoff |-> d.backoff, result |-> Some(Err(a.s))]
            ELSE Alone([cfg EXCEPT !.backoff = d.backoff], Tail(atts),
                       failed \o << Ev("sleep", "", None, d.flow, None),
                                    Ev("wake", "", None, d.flow, None),
                                    Ev("invoke", "", None, None, None) >>)

\* Call i's session run alone: a source fresh from the factory, the same
\* hooks, and the outcomes call i's invocations met.
AloneRun(i) ==
    Alone([SessionOf(i).config EXCEPT !.backoff = backoff0],
          SelectSeq(SessionOf(i).log, LAMBDA e : e.ev \in {"ok", "err"}),
          << Ev("invoke", "", None, None, None) >>)

\* C18: each call makes one factory call, before its first invocation, and
\* owns the source it got; however the two calls interleave, each one's
\* log (invocations, hook calls, delays), state, result and remaining
\* backoff are those of the same session run alone.
C18_IndependentSessions ==
    /\ parked # << >>
       => /\ Len(heap) = Cardinality({i \in 1..2 : SessionOf(i).src # 0})
          /\ \A i \in 1..2 :
                LET S == SessionOf(i)
                IN /\ S.src = 0 <=> S.state = "Uncalled"
                   /\ S.src = 0 => S.log = << >>
                   /\ S.src # 0 => S.src # SessionOf(3 - i).src
                   /\ S.state = "Ready" => S.log = << >> /\ Remaining(i) = backoff0
                   /\ S.log # << >>
                      => LET A == AloneRun(i)
                         IN /\ IsPrefix(S.log, A.log)
                            /\ S.state \in {"Attempting", "Succeeded", "Failed"}
                               => /\ S.log = A.log
                                  /\ S.state = A.state
                                  /\ S.result = A.result
                            /\ S.state = "Sleeping"
                               => /\ Len(S.log) = Len(A.log) - 2
                                  /\ S.result = None
                            /\ Remaining(i) = A.backoff

\* One call has exhausted its source and failed; the other is sleeping a
\* delay it pulled from its own source.
C18_Witness ==
    /\ parked # << >>
    /\ me = 2
    /\ state = "Sleeping"
    /\ \E k \in 1..Len(log) : log[k].ev = "pull" /\ log[k].cand # None
    /\ parked[1].state = "Failed"
    /\ LET plog == parked[1].log
       IN \E k \in 1..Len(plog) : plog[k].ev = "pull" /\ plog[k].cand = None
    /\ Len(backoff0) = MaxDelays


\* ------------------------------------------------------- counting, ending

\* The Continue verdicts decide has returned: the calls of adjust that
\* returned a delay.
Continues == Len(SelectSeq(log, LAMBDA e : e.ev = "adjust" /\ e.dur # None))

\* C22: in every reachable state, pulls = failed attempts the predicate
\* accepted; notify calls = sleeps started = Continue verdicts <= pulls;
\* and once the first attempt has started, invocations = completed
\* sleeps + 1.
C22_Counting ==
    /\ Count({"pull"}) = Count({"accept"})
    /\ Count({"accept"}) + Count({"reject"}) = Count({"err"})
    /\ Count({"notify"}) = Count({"sleep"})
    /\ Count({"sleep"}) = Continues
    /\ Continues <= Count({"pull"})
    /\ NumInvocations >= 1 => NumInvocations = Count({"wake"}) + 1
    /\ NumInvocations = 0 => log = << >>

\* C22 witness: 3 invocations, 2 sleeps, notify called twice, success.
C22_Witness ==
    /\ state = "Succeeded"
    /\ NumInvocations = 3
    /\ Count({"sleep"}) = 2
    /\ Count({"wake"}) = 2
    /\ Count({"notify"}) = 2
    /\ Count({"pull"}) = 2


\* C23: with a backoff source of finitely many delays and the identity
\* adjust, every session in which each attempt and each sleep completes
\* reaches Succeeded or Failed, whatever the predicate and the outcomes;
\* it makes at most one invocation per delay plus one, so it is the
\* backoff, not a cap on attempts, that ends it.
C23_Termination ==
    IdentityAdjust
    => /\ <>Terminated
       /\ [](/\ NumInvocations <= Len(backoff0) + 1
             /\ state = "Sleeping" => NumInvocations <= Len(backoff0))

\* C23 witness: every attempt failed with an accepted error, and the
\* session ended when the backoff ran out.
C23_Witness ==
    /\ state = "Failed"
    /\ IdentityAdjust
    /\ AllAccepted
    /\ Len(backoff0) = MaxDelays
    /\ NumInvocations = MaxDelays + 1
    /\ config.backoff = << >>


\* ----------------------------------------------------- arguments' claim

\* Some key is written more than once / some key is not one of the six.
KeyRepeated == \E i, j \in 1..Len(tokens) : i < j /\ tokens[i].key = tokens[j].key
KeyUnknown == \E i \in 1..Len(tokens) : tokens[i].key \notin PathKeys \cup {"context"}

\* C21 (as stated): a second occurrence of any key, context included
\* whatever its values, makes parsing fail, and so does an unknown key.
C21_RepeatedKeyRejected ==
    (parsed # None /\ (KeyRepeated \/ KeyUnknown)) => ~parsed[1].ok


\* ------------------------------------------------------- builders' claim

\* The hook the config must hold: the one given by the last builder call
\* for it, or the one the config was made with.
LastGiven(hook, initial) ==
    LET calls == SelectSeq(applied, LAMBDA g : g.hook = hook)
    IN IF calls = << >> THEN initial ELSE calls[Len(calls)].value

\* C24: each builder call replaces the one hook it is given and keeps the
\* backoff (as far as it had advanced) and the other three hooks; so the
\* config holds, for each hook, the last one given for it, in whatever
\* order the calls were made, and a step changes nothing but that hook.
C24_BuildersReplaceOneHook ==
    /\ [](/\ built.sleep = LastGiven("sleep", "default_sleep")
          /\ built.retryable = LastGiven("retryable", always_retry)
          /\ built.notify = LastGiven("notify", "noop_notify")
          /\ built.adjust = LastGiven("adjust", identity_adjust))
    /\ [][LET given == applied'[Len(applied')]
          IN /\ built' = [built EXCEPT ![given.hook] = given.value]
             /\ built'.backoff = built.backoff]_vars

\* C24 witness: the four builders were called in the order adjust, notify,
\* retryable, sleep, each with a hook other than the default, on a config
\* whose backoff holds MaxDelays delays.
C24_Witness ==
    /\ Len(applied) = 4
    /\ << applied[1].hook, applied[2].hook, applied[3].hook, applied[4].hook >>
           = << "adjust", "notify", "retryable", "sleep" >>
    /\ built.sleep = "custom_sleep"
    /\ built.retryable # always_retry
    /\ built.notify = "custom_notify"
    /\ built.adjust = adjust_stop
    /\ Len(built.backoff) = MaxDelays

====
